---- MODULE Spec2Model ----
(***************************************************************************)
(* Model of illumina_to_vcf_converter.py: the strand conversion            *)
(* (convert_strand), the genotype encoding (convert_genotype) and the      *)
(* marker loop of main, which streams one VCF data line per marker.        *)
(*                                                                         *)
(* Strings whose characters matter (SNP definitions, genotype strings,     *)
(* formatted genotypes) are sequences of one-character strings.            *)
(***************************************************************************)
EXTENDS Integers, Sequences, FiniteSets, TLC

\* ---------------------------------------------------------------- bounds
MaxMarkers == 2    \* rows of the marker table
MaxSamples == 2    \* rows of the genotype table
MaxRow == 2        \* length of a row handed to convert_genotype on its own

\* ------------------------------------------------------- input alphabets
Bases == {"A", "T", "C", "G"}
Alleles == Bases \cup {"N", "I", "."}
Strands == {"TOP", "BOT", "PLUS"}
Codes == {"0", "1", "2", "5", "-", "?"}
RefAlts == {"A", "G", "T", "N", "."}

\* A missing cell of the marker table (NaN after read_csv).
NaN == <<"NaN">>

\* --------------------------------------------------------- convert_strand
\* complement.get(allele, '.')
complement_get(allele) ==
    CASE allele = "A" -> "T"
      [] allele = "T" -> "A"
      [] allele = "C" -> "G"
      [] allele = "G" -> "C"
      [] OTHER -> "."

\* Faulty variant: the complement table maps every base to itself.
convert_strand_nocomplement(allele, ilmn_strand, customer_strand) ==
    IF allele \in Bases THEN allele ELSE "."

convert_strand(allele, ilmn_strand, customer_strand) ==
    IF ilmn_strand = customer_strand
    THEN allele
    ELSE complement_get(allele)

\* ------------------------------------------------------- convert_genotype
\* "{0}<sep>{1}".format(a, b)
Format(a, sep, b) == <<a, sep, b>>

\* ref if ref != '.' else '.'
OrDot(x) == IF x # "." THEN x ELSE "."

\* Faulty variant: the entries of codes '0' and '2' are exchanged.
genotype_mapping_get_swapped(x, ref, alt, phased) ==
    LET sep == IF phased THEN "|" ELSE "/" IN
    CASE x = "0" -> Format(OrDot(ref), sep, OrDot(ref))
      [] x = "1" -> Format(OrDot(ref), sep, OrDot(alt))
      [] x = "2" -> Format(OrDot(alt), sep, OrDot(alt))
      [] OTHER -> Format(".", "/", ".")

\* genotype_mapping.get(x, './.') for the dictionary of the given mode
genotype_mapping_get(x, ref, alt, phased) ==
    LET sep == IF phased THEN "|" ELSE "/" IN
    CASE x = "0" -> Format(OrDot(alt), sep, OrDot(alt))
      [] x = "1" -> Format(OrDot(ref), sep, OrDot(alt))
      [] x = "2" -> Format(OrDot(ref), sep, OrDot(ref))
      [] x = "5" -> Format(".", "/", ".")
      [] x = "-" -> Format(".", "/", ".")
      [] OTHER -> Format(".", "/", ".")

\* np.vectorize(f)(genotype): f applied to every element, in order.  With no
\* otypes set, numpy.vectorize raises ValueError on a size-0 input.
convert_genotype(genotype, ref, alt, phased) ==
    IF Len(genotype) = 0
    THEN [raised |-> "ValueError", value |-> <<>>]
    ELSE [raised |-> "none",
          value |-> [i \in 1..Len(genotype) |->
                        genotype_mapping_get(genotype[i], ref, alt, phased)]]

\* ------------------------------------------------------------ main: data
\* The columns main reads from a marker row, in the order it reads them.
MarkerColumns ==
    <<"Chromosome", "Position", "Name", "SNP", "ILMN_Strand", "Customer_Strand">>

AllColumns == {MarkerColumns[k] : k \in 1..Len(MarkerColumns)}

\* The column sets a marker file may have: complete, or one column absent.
ColumnSets == {AllColumns, AllColumns \ {"Chromosome"}, AllColumns \ {"Position"}}

\* SNP, ILMN_Strand and Customer_Strand of a marker row: two bases on opposite
\* strands, a letter that is no base on equal and on opposite strands, and a
\* missing SNP.
SnpCases ==
    {<<(<<"A", "G">>), "TOP", "BOT">>,
     <<(<<"N", "G">>), "TOP", "TOP">>,
     <<(<<"N", "G">>), "BOT", "TOP">>,
     <<NaN, "BOT", "BOT">>}

\* The cells of a marker row that the conversion depends on.
MarkerKinds ==
    {[Chromosome |-> c, SNP |-> s[1], ILMN_Strand |-> s[2], Customer_Strand |-> s[3]] :
        c \in {1, 2}, s \in SnpCases}

\* A marker table of k rows; Name and Position are the row's 0-based number.
MarkerTable(f) ==
    [i \in 1..Len(f) |->
        [Chromosome |-> f[i].Chromosome, Position |-> i - 1, Name |-> i - 1,
         SNP |-> f[i].SNP, ILMN_Strand |-> f[i].ILMN_Strand,
         Customer_Strand |-> f[i].Customer_Strand]]

MarkerTables ==
    {MarkerTable(f) : f \in UNION {[1..k -> MarkerKinds] : k \in 0..MaxMarkers}}

\* Rows of the genotype table: a sample identifier and its string of codes.
SampleRows ==
    {[Matricola |-> "S1", genotype |-> <<"0", "1">>],
     [Matricola |-> "S2", genotype |-> <<"2", "-">>],
     [Matricola |-> "S3", genotype |-> <<"?">>]}

GenotypeTables == UNION {[1..k -> SampleRows] : k \in 0..MaxSamples}

\* The values of --chromosome: absent (None) or one integer.
ChromosomeArgs == {{}, {0}, {1}}

FileStates == {"missing", "empty", "ok"}

VARIABLES
    genotype_file,   \* state of the genotype file: missing, empty (no bytes), ok
    marker_file,     \* state of the marker file
    chromosome,      \* the --chromosome argument: {} for None, {c} for c
    phased,          \* the phased argument
    pc,              \* position of main
    genotypes,       \* the loaded genotype table
    map_file,        \* the loaded marker table
    columns,         \* the columns the marker table has
    index,           \* the loop's marker index (0-based)
    vcf_file,        \* the output stream: unopened, open, closed
    opens,           \* how many times the output stream was opened
    output,          \* the lines written to the output stream
    log,             \* the per-marker errors printed
    result,          \* the final message of main
    call,            \* a call of one of the two pure functions
    ret              \* and what it returned

vars ==
    <<genotype_file, marker_file, chromosome, phased, pc, genotypes, map_file,
      columns, index, vcf_file, opens, output, log, result, call, ret>>

NoCall ==
    [fn |-> "none", allele |-> ".", ilmn_strand |-> "TOP", customer_strand |-> "TOP",
     genotype |-> <<>>, ref |-> ".", alt |-> ".", phased |-> FALSE]

NoRet == [done |-> FALSE, raised |-> "none", value |-> <<>>]

\* ------------------------------------------------------- main: operators
\* genotype_array = np.array([list(g) for g in genotypes['genotype']]):
\* two-dimensional when there is at least one row and all rows have the same
\* length, otherwise a one-dimensional array (empty, or of lists).
GenotypeArray(table) ==
    LET rows == [j \in 1..Len(table) |-> table[j].genotype] IN
    IF Len(rows) > 0 /\ \A j \in 1..Len(rows) : Len(rows[j]) = Len(rows[1])
    THEN [ndim |-> 2, rows |-> rows]
    ELSE [ndim |-> 1, rows |-> rows]

\* Faulty variant: the column is taken one to the right of the marker's index.
ColumnShifted(arr, i) ==
    IF arr.ndim # 2 \/ i + 1 >= Len(arr.rows[1])
    THEN [raised |-> "IndexError", value |-> <<>>]
    ELSE [raised |-> "none",
          value |-> [j \in 1..Len(arr.rows) |-> arr.rows[j][i + 2]]]

\* genotype_array[:, index]
Column(arr, i) ==
    IF arr.ndim # 2 \/ i >= Len(arr.rows[1])
    THEN [raised |-> "IndexError", value |-> <<>>]
    ELSE [raised |-> "none",
          value |-> [j \in 1..Len(arr.rows) |-> arr.rows[j][i + 1]]]

\* str(marker['SNP']) if pd.notnull(marker['SNP']) else ''
SnpString(v) == IF v # NaN THEN v ELSE <<>>

\* Faulty variant: PASS as soon as one of the two alleles is present.
filter_status_either(ref, alt) ==
    IF ref # "." \/ alt # "." THEN "PASS" ELSE "LowQual"

\* "PASS" if ref != '.' and alt != '.' else "LowQual"
filter_status_of(ref, alt) ==
    IF ref # "." /\ alt # "." THEN "PASS" ELSE "LowQual"

\* ref, alt and filter_status of a marker.
Reconcile(marker) ==
    LET snp == SnpString(marker.SNP) IN
    IF Len(snp) # 2
    THEN [ref |-> ".", alt |-> ".", filter_status |-> "LowQual"]
    ELSE LET ref == convert_strand(snp[1], marker.ILMN_Strand, marker.Customer_Strand)
             alt == convert_strand(snp[2], marker.ILMN_Strand, marker.Customer_Strand)
         IN [ref |-> ref, alt |-> alt, filter_status |-> filter_status_of(ref, alt)]

\* The columns the try block reads (by position in MarkerColumns) that the
\* table does not have; reading the first of them raises KeyError.
MissingKeys(cols) == {k \in 1..Len(MarkerColumns) : MarkerColumns[k] \notin cols}

\* The exception the try block of one marker ends with, or "none".
MarkerError(cols, table, i, marker, ph) ==
    LET r == Reconcile(marker)
        col == Column(GenotypeArray(table), i)
    IN IF MissingKeys(cols) # {} THEN "KeyError"
       ELSE IF col.raised # "none" THEN "IndexError"
       ELSE IF convert_genotype(col.value, r.ref, r.alt, ph).raised # "none"
            THEN "Exception"
       ELSE "none"

\* The data line of a marker whose try block raises nothing.
vcf_row(table, i, marker, ph) ==
    LET r == Reconcile(marker)
        col == Column(GenotypeArray(table), i)
    IN [kind |-> "data", chrom |-> marker.Chromosome, pos |-> marker.Position,
        snp_id |-> marker.Name, ref |-> r.ref, alt |-> r.alt,
        filter_status |-> r.filter_status,
        genotype_values |-> convert_genotype(col.value, r.ref, r.alt, ph).value]

\* The header block: six meta lines and the column line with the sample names.
vcf_header(table) ==
    <<[kind |-> "meta", text |-> "fileformat"],
      [kind |-> "meta", text |-> "source"],
      [kind |-> "meta", text |-> "reference"],
      [kind |-> "meta", text |-> "FILTER PASS"],
      [kind |-> "meta", text |-> "FILTER LowQual"],
      [kind |-> "meta", text |-> "FORMAT GT"],
      [kind |-> "columns", samples |-> [j \in 1..Len(table) |-> table[j].Matricola]]>>

\* Faulty variant: a line is put in front of what was written.
write_front(out, line) == <<line>> \o out

\* vcf_file.write(line)
write(out, line) == Append(out, line)

\* Faulty variant: leaving the block does not close the stream.
with_exit_leak(stream) == stream

\* Leaving the with block, normally or by an exception, closes the stream.
with_exit(stream) == "closed"

\* `if chromosome and ...`: None and 0 are both false.
FilterActive(chrom) == chrom # {} /\ chrom # {0}

\* --------------------------------------------------------- main: actions
Init ==
    /\ genotype_file \in FileStates
    /\ marker_file \in FileStates
    /\ chromosome \in ChromosomeArgs
    /\ phased \in BOOLEAN
    /\ pc = "load_genotype"
    /\ genotypes = <<>>
    /\ map_file = <<>>
    /\ columns = AllColumns
    /\ index = 0
    /\ vcf_file = "unopened"
    /\ opens = 0
    /\ output = <<>>
    /\ log = <<>>
    /\ result = "none"
    /\ call = NoCall
    /\ ret = NoRet

\* A failure caught by one of the handlers at the end of main.
Fatal(message) ==
    /\ result' = message
    /\ pc' = "done"

\* Lines 87-92: the genotype file is absent.
GenotypeFileNotFound ==
    /\ pc = "load_genotype"
    /\ genotype_file = "missing"
    /\ Fatal("FileNotFoundError")
    /\ UNCHANGED <<genotype_file, marker_file, chromosome, phased, genotypes,
                   map_file, columns, index, vcf_file, opens, output, log, call, ret>>

\* Line 88: read_csv raises EmptyDataError on a file with nothing in it.
GenotypeFileEmpty ==
    /\ pc = "load_genotype"
    /\ genotype_file = "empty"
    /\ Fatal("EmptyDataError")
    /\ UNCHANGED <<genotype_file, marker_file, chromosome, phased, genotypes,
                   map_file, columns, index, vcf_file, opens, output, log, call, ret>>

\* Line 88: read_csv returns the table of the file, of zero or more samples.
LoadGenotype ==
    /\ pc = "load_genotype"
    /\ genotype_file = "ok"
    /\ \E table \in GenotypeTables : genotypes' = table
    /\ pc' = "load_marker"
    /\ UNCHANGED <<genotype_file, marker_file, chromosome, phased, map_file,
                   columns, index, vcf_file, opens, output, log, result, call, ret>>

\* Lines 95-100: the marker file is absent.
MarkerFileNotFound ==
    /\ pc = "load_marker"
    /\ marker_file = "missing"
    /\ Fatal("FileNotFoundError")
    /\ UNCHANGED <<genotype_file, marker_file, chromosome, phased, genotypes,
                   map_file, columns, index, vcf_file, opens, output, log, call, ret>>

\* Line 96: read_csv raises EmptyDataError on a file with nothing in it.
MarkerFileEmpty ==
    /\ pc = "load_marker"
    /\ marker_file = "empty"
    /\ Fatal("EmptyDataError")
    /\ UNCHANGED <<genotype_file, marker_file, chromosome, phased, genotypes,
                   map_file, columns, index, vcf_file, opens, output, log, call, ret>>

\* Line 96: read_csv returns the table of the file, of zero or more markers.
LoadMarker ==
    /\ pc = "load_marker"
    /\ marker_file = "ok"
    /\ \E table \in MarkerTables : map_file' = table
    /\ \E cols \in ColumnSets : columns' = cols
    /\ pc' = "prepare"
    /\ UNCHANGED <<genotype_file, marker_file, chromosome, phased, genotypes,
                   index, vcf_file, opens, output, log, result, call, ret>>

\* Lines 105-123: the array and the header are built, the output stream is
\* opened and the header is written to it.
WriteHeader ==
    /\ pc = "prepare"
    /\ vcf_file' = "open"
    /\ opens' = opens + 1
    /\ output' = output \o vcf_header(genotypes)
    /\ index' = 0
    /\ pc' = "loop"
    /\ UNCHANGED <<genotype_file, marker_file, chromosome, phased, genotypes,
                   map_file, columns, log, result, call, ret>>

\* The marker of the current iteration.
Marker == map_file[index + 1]

InLoop == pc = "loop" /\ index < Len(map_file)

\* Line 128 with a filter on a table that has no Chromosome column: the
\* KeyError is raised outside the try block of the marker, leaves the with
\* block and is caught by the last handler of main.
FilterKeyError ==
    /\ InLoop
    /\ FilterActive(chromosome)
    /\ "Chromosome" \notin columns
    /\ vcf_file' = with_exit(vcf_file)
    /\ Fatal("Exception")
    /\ UNCHANGED <<genotype_file, marker_file, chromosome, phased, genotypes,
                   map_file, columns, index, opens, output, log, call, ret>>

\* Lines 128-129: the marker is on another chromosome than the filter's.
FilterSkip ==
    /\ InLoop
    /\ FilterActive(chromosome)
    /\ "Chromosome" \in columns
    /\ Marker.Chromosome \notin chromosome
    /\ index' = index + 1
    /\ UNCHANGED <<genotype_file, marker_file, chromosome, phased, pc, genotypes,
                   map_file, columns, vcf_file, opens, output, log, result, call, ret>>

\* The marker passes line 128.
PassesFilter ==
    \/ ~FilterActive(chromosome)
    \/ "Chromosome" \in columns /\ Marker.Chromosome \in chromosome

\* Lines 138-171, a marker whose try block raises: the error is printed and
\* the loop goes on.
SkipMarker ==
    /\ InLoop
    /\ PassesFilter
    /\ MarkerError(columns, genotypes, index, Marker, phased) # "none"
    /\ log' = Append(log, [marker |-> index,
                           error |-> MarkerError(columns, genotypes, index, Marker, phased)])
    /\ index' = index + 1
    /\ UNCHANGED <<genotype_file, marker_file, chromosome, phased, pc, genotypes,
                   map_file, columns, vcf_file, opens, output, result, call, ret>>

\* Lines 138-162, a marker whose try block raises nothing: its line is written.
WriteRow ==
    /\ InLoop
    /\ PassesFilter
    /\ MarkerError(columns, genotypes, index, Marker, phased) = "none"
    /\ output' = write(output, vcf_row(genotypes, index, Marker, phased))
    /\ index' = index + 1
    /\ UNCHANGED <<genotype_file, marker_file, chromosome, phased, pc, genotypes,
                   map_file, columns, vcf_file, opens, log, result, call, ret>>

\* Lines 127 and 173-174: the table is exhausted, the with block is left and
\* the success message is printed.
Finish ==
    /\ pc = "loop"
    /\ index = Len(map_file)
    /\ vcf_file' = with_exit(vcf_file)
    /\ result' = "success"
    /\ pc' = "done"
    /\ UNCHANGED <<genotype_file, marker_file, chromosome, phased, genotypes,
                   map_file, columns, index, opens, output, log, call, ret>>

Next ==
    \/ GenotypeFileNotFound
    \/ GenotypeFileEmpty
    \/ LoadGenotype
    \/ MarkerFileNotFound
    \/ MarkerFileEmpty
    \/ LoadMarker
    \/ WriteHeader
    \/ FilterKeyError
    \/ FilterSkip
    \/ SkipMarker
    \/ WriteRow
    \/ Finish

Spec == Init /\ [][Next]_vars

\* ------------------------------------- the two functions called directly
StrandCalls ==
    {[NoCall EXCEPT !.fn = "convert_strand", !.allele = a,
                    !.ilmn_strand = i, !.customer_strand = c] :
        a \in Alleles, i \in Strands, c \in Strands}

Rows == UNION {[1..k -> Codes] : k \in 0..MaxRow}

GenotypeCalls ==
    {[NoCall EXCEPT !.fn = "convert_genotype", !.genotype = g,
                    !.ref = r, !.alt = a, !.phased = p] :
        g \in Rows, r \in RefAlts, a \in RefAlts, p \in BOOLEAN}

PureInit ==
    /\ call \in StrandCalls \cup GenotypeCalls
    /\ ret = NoRet
    /\ pc = "call"
    /\ genotype_file = "ok"
    /\ marker_file = "ok"
    /\ chromosome = {}
    /\ phased = FALSE
    /\ genotypes = <<>>
    /\ map_file = <<>>
    /\ columns = AllColumns
    /\ index = 0
    /\ vcf_file = "unopened"
    /\ opens = 0
    /\ output = <<>>
    /\ log = <<>>
    /\ result = "none"

\* convert_strand(allele, ilmn_strand, customer_strand) returns.
ReturnConvertStrand ==
    /\ pc = "call"
    /\ call.fn = "convert_strand"
    /\ ret' = [done |-> TRUE, raised |-> "none",
               value |-> <<convert_strand(call.allele, call.ilmn_strand,
                                          call.customer_strand)>>]
    /\ pc' = "returned"
    /\ UNCHANGED <<genotype_file, marker_file, chromosome, phased, genotypes, map_file,
                   columns, index, vcf_file, opens, output, log, result, call>>

\* convert_genotype(genotype, ref, alt, phased) returns or raises.
ReturnConvertGenotype ==
    /\ pc = "call"
    /\ call.fn = "convert_genotype"
    /\ LET r == convert_genotype(call.genotype, call.ref, call.alt, call.phased)
       IN ret' = [done |-> TRUE, raised |-> r.raised, value |-> r.value]
    /\ pc' = "returned"
    /\ UNCHANGED <<genotype_file, marker_file, chromosome, phased, genotypes, map_file,
                   columns, index, vcf_file, opens, output, log, result, call>>

PureNext == ReturnConvertStrand \/ ReturnConvertGenotype

PureSpec == PureInit /\ [][PureNext]_vars

\* ================================================================ claims
StrandReturned == ret.done /\ call.fn = "convert_strand"

GenotypeReturned == ret.done /\ call.fn = "convert_genotype"

\* The Watson-Crick pairing A<->T, C<->G.
WatsonCrick == {<<"A", "T">>, <<"T", "A">>, <<"C", "G">>, <<"G", "C">>}

\* The genotype string of a code according to the encoding table.
ExpectedGenotype(code, ref, alt, ph) ==
    LET sep == IF ph THEN "|" ELSE "/" IN
    CASE code = "0" -> <<alt, sep, alt>>
      [] code = "1" -> <<ref, sep, alt>>
      [] code = "2" -> <<ref, sep, ref>>
      [] OTHER -> <<".", "/", ".">>

\* C1: for every base outside {A,T,C,G} and every pair of strand labels, equal
\* or different, convert_strand returns the missing sentinel '.'.
C1_NonBaseIsMissing ==
    (StrandReturned /\ call.allele \notin Bases) => ret.value = <<".">>

\* C4: for every base b in {A,T,C,G}, convert_strand returns b when the two
\* strand labels are equal and the Watson-Crick complement of b when they differ.
C4_BaseKeptOrComplemented ==
    (StrandReturned /\ call.allele \in Bases) =>
        /\ ret.raised = "none"
        /\ Len(ret.value) = 1
        /\ IF call.ilmn_strand = call.customer_strand
           THEN ret.value[1] = call.allele
           ELSE <<call.allele, ret.value[1]>> \in WatsonCrick

C4_Witness ==
    /\ StrandReturned
    /\ call.allele = "C"
    /\ call.ilmn_strand = "TOP"
    /\ call.customer_strand = "BOT"
    /\ ret.value = <<"G">>

\* The result of convert_genotype is the element-wise encoding of its row.
EncodedElementwise ==
    /\ ret.raised = "none"
    /\ Len(ret.value) = Len(call.genotype)
    /\ \A i \in 1..Len(call.genotype) :
          ret.value[i] = ExpectedGenotype(call.genotype[i], call.ref, call.alt, call.phased)

\* C5 as stated: for every row of codes, every ref and alt and either phasing
\* mode, convert_genotype returns a row of the same length whose element i is
\* the encoding of code i, and it never raises.
C5_EveryRowEncoded == GenotypeReturned => EncodedElementwise

\* C5 as amended: the same for every row of at least one code.
C5_NonEmptyRowEncoded ==
    (GenotypeReturned /\ Len(call.genotype) > 0) => EncodedElementwise

C5_Witness ==
    /\ GenotypeReturned
    /\ call.genotype = <<"1", "?">>
    /\ call.ref = "."
    /\ call.alt = "G"
    /\ call.phased
    /\ ret.value = <<(<<".", "|", "G">>), (<<".", "/", ".">>)>>

\* ------------------------------------------------------ claims about main
HeaderLen == Len(vcf_header(genotypes))

\* The positions of the data lines in the output.
DataAt == {k \in 1..Len(output) : output[k].kind = "data"}

\* The markers (0-based table indexes) that have a data line in the output.
Emitted == {output[k].snp_id : k \in DataAt}

\* The loop was entered: both tables are loaded and the header is written.
LoopEntered == pc \in {"loop", "done"} /\ vcf_file # "unopened"

\* Processing marker i raises a data-access or lookup error.
Raises(i) == MarkerError(columns, genotypes, i, map_file[i + 1], phased) # "none"

\* Marker i is kept by the filter the loop applies.
Kept(i) ==
    \/ ~FilterActive(chromosome)
    \/ "Chromosome" \in columns /\ map_file[i + 1].Chromosome \in chromosome

\* C2: if processing one marker raises a data-access or lookup error, with or
\* without a chromosome filter, no line is emitted for it, a line is emitted
\* for every other retained marker, and the loop reaches the last marker
\* instead of aborting the run.
C2_FailureIsolated ==
    (LoopEntered /\ pc = "done") =>
        /\ result = "success"
        /\ index = Len(map_file)
        /\ \A i \in 0..(Len(map_file) - 1) : i \in Emitted <=> (Kept(i) /\ ~Raises(i))

\* C3: when a chromosome filter is supplied, 0 included, a data line is
\* emitted only for markers on that chromosome; when none is supplied no
\* marker is skipped for its chromosome.
C3_FilterHonoured ==
    /\ chromosome # {} => \A k \in DataAt : output[k].chrom \in chromosome
    /\ (chromosome = {} /\ LoopEntered) =>
          \A i \in 0..(index - 1) : ~Raises(i) => i \in Emitted

\* C6: every data line has status PASS exactly when its ref and its alt both
\* differ from '.', and LowQual otherwise; a marker whose SNP string has not
\* exactly two characters is emitted with ref '.', alt '.' and LowQual.
C6_FilterStatus ==
    \A k \in DataAt :
        LET l == output[k] IN
        /\ l.filter_status = (IF l.ref # "." /\ l.alt # "." THEN "PASS" ELSE "LowQual")
        /\ Len(SnpString(map_file[l.snp_id + 1].SNP)) # 2 =>
              (l.ref = "." /\ l.alt = "." /\ l.filter_status = "LowQual")

C6_Witness ==
    \E k \in DataAt :
        /\ output[k].ref = "."
        /\ output[k].alt = "C"
        /\ output[k].filter_status = "LowQual"
        /\ \E m \in DataAt : output[m].filter_status = "PASS"

\* C7: if the genotype table has no samples or the marker table has no
\* markers, the run ends with a reported error, not the success message, and
\* no data row is written.
EmptyInput ==
    \/ genotype_file = "empty"
    \/ genotype_file = "ok" /\ genotypes = <<>>
    \/ genotype_file = "ok" /\ marker_file = "empty"
    \/ genotype_file = "ok" /\ marker_file = "ok" /\ map_file = <<>>

C7_EmptyInputFatal ==
    (pc = "done" /\ EmptyInput) => (result # "success" /\ DataAt = {})

\* C8: the header block is written first, each marker has at most one data
\* line, and the data lines are, in table order, exactly the markers that
\* were kept by the filter and not skipped by an error.
C8_OutputOrder ==
    /\ vcf_file = "unopened" => output = <<>>
    /\ vcf_file # "unopened" =>
          /\ Len(output) >= HeaderLen
          /\ \A k \in 1..(HeaderLen - 1) : output[k].kind = "meta"
          /\ output[HeaderLen].kind = "columns"
          /\ DataAt = (HeaderLen + 1)..Len(output)
          /\ \A k, m \in DataAt : k < m => output[k].snp_id < output[m].snp_id
          /\ Emitted = {i \in 0..(index - 1) : Kept(i) /\ ~Raises(i)}

C8_Witness ==
    /\ pc = "done"
    /\ result = "success"
    /\ Len(map_file) >= 2
    /\ Emitted = {0}
    /\ Len(log) >= 1
    /\ log[1] = [marker |-> 1, error |-> "IndexError"]

\* C9: the output stream is opened at most once and no run ends with it open:
\* normal completion, per-marker errors and a failure raised while it is open
\* all leave it closed; until the run has ended a step can always be taken.
C9_StreamClosed ==
    /\ opens <= 1
    /\ (vcf_file # "unopened") = (opens = 1)
    /\ pc = "done" => vcf_file # "open"
    /\ pc # "done" => ENABLED Next

C9_Witness ==
    /\ pc = "done"
    /\ result = "Exception"
    /\ opens = 1
    /\ vcf_file = "closed"

\* C10: the data line of the marker at table index i has one genotype string
\* per sample, the j-th being the encoding of the code at column i of the
\* j-th sample's row, in the order of the header's sample columns, however
\* many earlier markers were filtered out or skipped.
C10_IndexAligned ==
    \A k \in DataAt :
        LET l == output[k]
            i == l.snp_id
        IN /\ Len(l.genotype_values) = Len(genotypes)
           /\ Len(output[HeaderLen].samples) = Len(genotypes)
           /\ \A j \in 1..Len(genotypes) :
                 /\ output[HeaderLen].samples[j] = genotypes[j].Matricola
                 /\ i < Len(genotypes[j].genotype)
                 /\ l.genotype_values[j] =
                       ExpectedGenotype(genotypes[j].genotype[i + 1], l.ref, l.alt, phased)

C10_Witness ==
    /\ Len(genotypes) = 2
    /\ genotypes[1] # genotypes[2]
    /\ chromosome = {1}
    /\ Len(map_file) >= 2
    /\ map_file[1].Chromosome = 2
    /\ \E k \in DataAt :
          /\ output[k].snp_id = 1
          /\ output[k].ref = "T"
          /\ output[k].genotype_values = <<(<<"T", "/", "C">>), (<<".", "/", ".">>)>>

====
